---- MODULE Spec2Model ----
(***************************************************************************)
(* Texture loader of the Phong-shading demo (configTexture.js).            *)
(*                                                                         *)
(* The two functions of the file, configureCubeMap and configureTexture,   *)
(* and the image.onload callbacks configureCubeMap registers, are modelled *)
(* as atomic operations (JavaScript runs each to completion) on a WebGL    *)
(* context.  The context is the part of the WebGL state machine the file   *)
(* touches: the active texture unit, the TEXTURE_2D and TEXTURE_CUBE_MAP   *)
(* binding of every unit, the texture objects, the sampler uniform and the *)
(* error flag.  Every gl.* call is an operator on a pair                   *)
(* [gl |-> context, log |-> calls issued so far], so an operation is the   *)
(* composition of its calls in source order.                               *)
(***************************************************************************)
EXTENDS Integers, Sequences, FiniteSets, TLC

VARIABLES
    gl,        \* the WebGL context
    cubeMap,   \* the global variable cubeMap (configTexture.js line 5)
    handlers,  \* per configureCubeMap call, the six image.onload closures,
               \* each with the gl.* calls it issued when it ran
    missing,   \* image paths that are missing or corrupt: their load fails
    calls,     \* the gl.* calls issued by the most recent call of
               \* configureCubeMap or configureTexture
    op         \* that call: the function, its argument, what it returned

vars == <<gl, cubeMap, handlers, missing, calls, op>>

---------------------------------------------------------------------------
(* Bounds of the model *)

MaxTex2D == 2        \* calls of configureTexture in a behaviour
MaxCubeCalls == 2    \* calls of configureCubeMap in a behaviour
MaxMissing == 1      \* skybox images that are missing or corrupt
MaxOps == 8          \* operations (calls and callbacks) in a behaviour

---------------------------------------------------------------------------
(* Program constants *)

NumFaces == 6        \* for (var i = 0; i < 6; i++)
NumUnits == 3        \* TEXTURE0, TEXTURE1, TEXTURE2
TEXTURE0 == 0        \* gl.TEXTURE0 as a unit index
TEXTURE2 == 2        \* the unit of the depth texture
null == 0            \* no texture object (gl.bindTexture(gl.TEXTURE_2D, null))
cubeSamplerUnit == 0 \* gl.uniform1i(..., 0)

Units == 0 .. (NumUnits - 1)

\* var faces = [[path, target], ...], 1-based here
faces ==
    << <<"./skybox/right.jpg",  "TEXTURE_CUBE_MAP_POSITIVE_X">>,
       <<"./skybox/left.jpg",   "TEXTURE_CUBE_MAP_NEGATIVE_X">>,
       <<"./skybox/top.jpg",    "TEXTURE_CUBE_MAP_POSITIVE_Y">>,
       <<"./skybox/bottom.jpg", "TEXTURE_CUBE_MAP_NEGATIVE_Y">>,
       <<"./skybox/front.jpg",  "TEXTURE_CUBE_MAP_POSITIVE_Z">>,
       <<"./skybox/back.jpg",   "TEXTURE_CUBE_MAP_NEGATIVE_Z">> >>

FaceIds == 1 .. NumFaces

\* The six face targets of a cube-map texture in WebGL.
CubeFaceTargets ==
    { "TEXTURE_CUBE_MAP_POSITIVE_X", "TEXTURE_CUBE_MAP_NEGATIVE_X",
      "TEXTURE_CUBE_MAP_POSITIVE_Y", "TEXTURE_CUBE_MAP_NEGATIVE_Y",
      "TEXTURE_CUBE_MAP_POSITIVE_Z", "TEXTURE_CUBE_MAP_NEGATIVE_Z" }

SkyboxPaths == { faces[i][1] : i \in FaceIds }

\* The 2D images the application hands to configureTexture.
Images2D == { "container.png", "wood.png" }

\* The programs the application hands to configureCubeMap.
Programs == { "program", "skyboxProgram" }

---------------------------------------------------------------------------
(* WebGL texture objects *)

NoImage == [image |-> "none", format |-> "none"]

\* A texture object as gl.createTexture() returns it: no target yet, no
\* image, and WebGL's initial sampling parameters.
NewTexture ==
    [ kind      |-> "none",
      level0    |-> NoImage,
      faces     |-> [f \in CubeFaceTargets |-> NoImage],
      mipmap    |-> NoImage,
      minFilter |-> "NEAREST_MIPMAP_LINEAR",
      magFilter |-> "LINEAR",
      wrapS     |-> "REPEAT",
      wrapT     |-> "REPEAT" ]

\* The depth texture of the shadow framebuffer, which the application
\* creates itself and samples through TEXTURE2.
DepthTexture ==
    [ NewTexture EXCEPT !.kind = "2d",
                        !.level0 = [image |-> "depth", format |-> "DEPTH_COMPONENT32F"],
                        !.minFilter = "NEAREST",
                        !.magFilter = "NEAREST" ]

KindOf(target) == IF target = "TEXTURE_2D" THEN "2d" ELSE "cube"

\* The texture object a call on `target` acts on: the one bound to the
\* target's binding point on the active unit (null when none is).
Bound(g, target) ==
    IF KindOf(target) = "2d" THEN g.bind2D[g.active] ELSE g.bindCube[g.active]

\* WebGL records the first error raised since the last getError().
RaiseError(g, e) ==
    IF g.error = "NO_ERROR" THEN [g EXCEPT !.error = e] ELSE g

Entry(fn, target, pname, value, image, tex, n, bound) ==
    [ fn |-> fn, target |-> target, pname |-> pname, value |-> value,
      image |-> image, tex |-> tex, n |-> n, bound |-> bound ]

Logged(c, g, e) == [gl |-> g, log |-> Append(c.log, e)]

---------------------------------------------------------------------------
(* The gl.* calls configTexture.js makes.  c is [gl, log]. *)

glActiveTexture(c, unit) ==
    Logged(c, [c.gl EXCEPT !.active = unit],
           Entry("activeTexture", "", "", "", "", null, unit, null))

\* The new texture object is the last element of c.gl.tex afterwards.
glCreateTexture(c) ==
    Logged(c, [c.gl EXCEPT !.tex = Append(@, NewTexture)],
           Entry("createTexture", "", "", "", "", Len(c.gl.tex) + 1, 0, null))

glBindTexture(c, target, t) ==
    LET g == c.gl
        e == Entry("bindTexture", target, "", "", "", t, 0, Bound(g, target))
        bind(h) == IF KindOf(target) = "2d"
                   THEN [h EXCEPT !.bind2D[h.active] = t]
                   ELSE [h EXCEPT !.bindCube[h.active] = t]
    IN  IF t = null
        THEN Logged(c, bind(g), e)
        ELSE IF g.tex[t].kind \notin {"none", KindOf(target)}
        THEN Logged(c, RaiseError(g, "INVALID_OPERATION"), e)
        ELSE Logged(c, bind([g EXCEPT !.tex[t].kind = KindOf(target)]), e)

glTexParameteri(c, target, pname, value) ==
    LET g == c.gl
        t == Bound(g, target)
        e == Entry("texParameteri", target, pname, value, "", null, 0, t)
    IN  IF t = null
        THEN Logged(c, RaiseError(g, "INVALID_OPERATION"), e)
        ELSE Logged(c,
                CASE pname = "TEXTURE_MIN_FILTER" -> [g EXCEPT !.tex[t].minFilter = value]
                  [] pname = "TEXTURE_MAG_FILTER" -> [g EXCEPT !.tex[t].magFilter = value]
                  [] pname = "TEXTURE_WRAP_S"     -> [g EXCEPT !.tex[t].wrapS = value]
                  [] pname = "TEXTURE_WRAP_T"     -> [g EXCEPT !.tex[t].wrapT = value]
                  [] OTHER                        -> RaiseError(g, "INVALID_ENUM"),
                e)

\* gl.texImage2D(target, 0, format, format, gl.UNSIGNED_BYTE, image): level 0
\* of the bound texture (of the named face, for a cube map) takes the image.
glTexImage2D(c, target, format, image) ==
    LET g == c.gl
        t == Bound(g, target)
        d == [image |-> image, format |-> format]
        e == Entry("texImage2D", target, "", format, image, null, 0, t)
    IN  IF target \notin CubeFaceTargets \cup {"TEXTURE_2D"}
        THEN Logged(c, RaiseError(g, "INVALID_ENUM"), e)
        ELSE IF t = null
        THEN Logged(c, RaiseError(g, "INVALID_OPERATION"), e)
        ELSE IF target = "TEXTURE_2D"
        THEN Logged(c, [g EXCEPT !.tex[t].level0 = d], e)
        ELSE Logged(c, [g EXCEPT !.tex[t].faces[target] = d], e)

\* The mipmap chain is derived from the level-0 image the texture holds at
\* the time of the call; without one the call is an error.
glGenerateMipmap(c, target) ==
    LET g == c.gl
        t == Bound(g, target)
        e == Entry("generateMipmap", target, "", "", "", null, 0, t)
    IN  IF t = null \/ target # "TEXTURE_2D"
        THEN Logged(c, RaiseError(g, "INVALID_OPERATION"), e)
        ELSE IF g.tex[t].level0 = NoImage
        THEN Logged(c, RaiseError(g, "INVALID_OPERATION"), e)
        ELSE Logged(c, [g EXCEPT !.tex[t].mipmap = g.tex[t].level0], e)

\* gl.uniform1i(gl.getUniformLocation(program, name), value), the program
\* being the one in use, as the call requires.
glUniform1i(c, program, name, value) ==
    Logged(c, [c.gl EXCEPT !.uniform[program][name] = value],
           Entry("uniform1i", program, name, "", "", null, value, null))

---------------------------------------------------------------------------
(* configureCubeMap *)

\* Loop iteration i: var face = faces[i][1]; var image = new Image();
\* image.src = faces[i][0].
LoopVars(i) == [face |-> faces[i][2], image |-> faces[i][1]]

\* Variant: the callback reads the function-scoped variables face and image
\* when it runs, after the loop has left them at the last iteration's values.
onloadClosureLate(cm, i) ==
    [ cubeMap |-> cm, face |-> LoopVars(NumFaces).face,
      image |-> LoopVars(NumFaces).image, state |-> "pending", log |-> <<>> ]

\* image.onload = function (cubeMap, face, image) { return function () {...} }
\*                (cubeMap, face, image): the closure holds the values the
\* three variables have in iteration i.  state and log are bookkeeping:
\* whether the callback has run, and the gl.* calls it issued when it ran.
onloadClosure(cm, i) ==
    [ cubeMap |-> cm, face |-> LoopVars(i).face, image |-> LoopVars(i).image,
      state |-> "pending", log |-> <<>> ]

\* Variant: configureCubeMap without gl.activeTexture(gl.TEXTURE0).
cubeMapSetupNoActive(c, program) ==
    LET c2 == glCreateTexture(c)
        cm == Len(c2.gl.tex)
        c3 == glBindTexture(c2, "TEXTURE_CUBE_MAP", cm)
        c4 == glTexParameteri(c3, "TEXTURE_CUBE_MAP", "TEXTURE_MAG_FILTER", "LINEAR")
        c5 == glTexParameteri(c4, "TEXTURE_CUBE_MAP", "TEXTURE_MIN_FILTER", "LINEAR")
    IN  glUniform1i(c5, program, "cubeSampler", cubeSamplerUnit)

\* Variant: the first face is uploaded inside configureCubeMap, before the
\* image has loaded, instead of from its onload callback.
cubeMapSetupEager(c, program) ==
    LET c1 == glActiveTexture(c, TEXTURE0)
        c2 == glCreateTexture(c1)
        cm == Len(c2.gl.tex)
        c3 == glBindTexture(c2, "TEXTURE_CUBE_MAP", cm)
        c4 == glTexParameteri(c3, "TEXTURE_CUBE_MAP", "TEXTURE_MAG_FILTER", "LINEAR")
        c5 == glTexParameteri(c4, "TEXTURE_CUBE_MAP", "TEXTURE_MIN_FILTER", "LINEAR")
        c6 == glUniform1i(c5, program, "cubeSampler", cubeSamplerUnit)
    IN  glTexImage2D(c6, LoopVars(1).face, "RGB", LoopVars(1).image)

\* Lines 3-10: the GL calls of configureCubeMap before the loop.
cubeMapSetup(c, program) ==
    LET c1 == glActiveTexture(c, TEXTURE0)
        c2 == glCreateTexture(c1)
        cm == Len(c2.gl.tex)
        c3 == glBindTexture(c2, "TEXTURE_CUBE_MAP", cm)
        c4 == glTexParameteri(c3, "TEXTURE_CUBE_MAP", "TEXTURE_MAG_FILTER", "LINEAR")
        c5 == glTexParameteri(c4, "TEXTURE_CUBE_MAP", "TEXTURE_MIN_FILTER", "LINEAR")
    IN  glUniform1i(c5, program, "cubeSampler", cubeSamplerUnit)

\* Variant: every callback uploads to the first face target.
onloadBodyFirstFace(c, h) == glTexImage2D(c, faces[1][2], "RGB", h.image)

\* Variant: the callback unbinds the cube map after its upload, as
\* configureTexture does with TEXTURE_2D.
onloadBodyUnbind(c, h) ==
    glBindTexture(glTexImage2D(c, h.face, "RGB", h.image), "TEXTURE_CUBE_MAP", null)

\* The body of a registered callback:
\* gl.texImage2D(face, 0, gl.RGB, gl.RGB, gl.UNSIGNED_BYTE, image)
onloadBody(c, h) == glTexImage2D(c, h.face, "RGB", h.image)

OpRec(name, k, i, arg, ret) ==
    [name |-> name, k |-> k, i |-> i, arg |-> arg, ret |-> ret]

configureCubeMap(program) ==
    LET c  == cubeMapSetup([gl |-> gl, log |-> <<>>], program)
        cm == Len(c.gl.tex)
    IN  /\ gl' = c.gl
        /\ calls' = c.log
        /\ cubeMap' = cm
        /\ handlers' = Append(handlers, [i \in FaceIds |-> onloadClosure(cm, i)])
        /\ op' = OpRec("configureCubeMap", Len(handlers) + 1, 0, program, null)
        /\ UNCHANGED missing

\* Variant: the callback also runs for an image whose load failed.
onloadAnyImage(k, i) ==
    LET h == handlers[k][i]
        c == onloadBody([gl |-> gl, log |-> <<>>], h)
    IN  /\ h.state = "pending"
        /\ gl' = c.gl
        /\ handlers' = [handlers EXCEPT ![k][i].state = "fired",
                                         ![k][i].log = c.log]
        /\ UNCHANGED <<cubeMap, missing, calls, op>>

\* The browser fires image.onload once, after the image has loaded; an image
\* that is missing or corrupt fires no load event.
onload(k, i) ==
    LET h == handlers[k][i]
        c == onloadBody([gl |-> gl, log |-> <<>>], h)
    IN  /\ h.state = "pending"
        /\ h.image \notin missing
        /\ gl' = c.gl
        /\ handlers' = [handlers EXCEPT ![k][i].state = "fired",
                                         ![k][i].log = c.log]
        /\ UNCHANGED <<cubeMap, missing, calls, op>>

---------------------------------------------------------------------------
(* configureTexture *)

\* Variant: the texture is unbound before generateMipmap.
textureSetupUnbindEarly(c, image) ==
    LET c1 == glCreateTexture(c)
        texture == Len(c1.gl.tex)
        c2 == glBindTexture(c1, "TEXTURE_2D", texture)
        c3 == glTexImage2D(c2, "TEXTURE_2D", "RGBA", image)
        c4 == glTexParameteri(c3, "TEXTURE_2D", "TEXTURE_MIN_FILTER", "LINEAR_MIPMAP_LINEAR")
        c5 == glTexParameteri(c4, "TEXTURE_2D", "TEXTURE_MAG_FILTER", "LINEAR")
        c6 == glTexParameteri(c5, "TEXTURE_2D", "TEXTURE_WRAP_S", "REPEAT")
        c7 == glTexParameteri(c6, "TEXTURE_2D", "TEXTURE_WRAP_T", "REPEAT")
        c8 == glBindTexture(c7, "TEXTURE_2D", null)
    IN  glGenerateMipmap(c8, "TEXTURE_2D")

\* Variant: the final gl.bindTexture(gl.TEXTURE_2D, null) is left out.
textureSetupNoUnbind(c, image) ==
    LET c1 == glCreateTexture(c)
        texture == Len(c1.gl.tex)
        c2 == glBindTexture(c1, "TEXTURE_2D", texture)
        c3 == glTexImage2D(c2, "TEXTURE_2D", "RGBA", image)
        c4 == glTexParameteri(c3, "TEXTURE_2D", "TEXTURE_MIN_FILTER", "LINEAR_MIPMAP_LINEAR")
        c5 == glTexParameteri(c4, "TEXTURE_2D", "TEXTURE_MAG_FILTER", "LINEAR")
        c6 == glTexParameteri(c5, "TEXTURE_2D", "TEXTURE_WRAP_S", "REPEAT")
        c7 == glTexParameteri(c6, "TEXTURE_2D", "TEXTURE_WRAP_T", "REPEAT")
    IN  glGenerateMipmap(c7, "TEXTURE_2D")

\* Variant: generateMipmap is called before the image is uploaded.
textureSetupMipFirst(c, image) ==
    LET c1 == glCreateTexture(c)
        texture == Len(c1.gl.tex)
        c2 == glBindTexture(c1, "TEXTURE_2D", texture)
        c3 == glGenerateMipmap(c2, "TEXTURE_2D")
        c4 == glTexImage2D(c3, "TEXTURE_2D", "RGBA", image)
        c5 == glTexParameteri(c4, "TEXTURE_2D", "TEXTURE_MIN_FILTER", "LINEAR_MIPMAP_LINEAR")
        c6 == glTexParameteri(c5, "TEXTURE_2D", "TEXTURE_MAG_FILTER", "LINEAR")
        c7 == glTexParameteri(c6, "TEXTURE_2D", "TEXTURE_WRAP_S", "REPEAT")
        c8 == glTexParameteri(c7, "TEXTURE_2D", "TEXTURE_WRAP_T", "REPEAT")
    IN  glBindTexture(c8, "TEXTURE_2D", null)

\* Lines 35-50; the texture the function returns is the one it created.
textureSetup(c, image) ==
    LET c1 == glCreateTexture(c)
        texture == Len(c1.gl.tex)
        c2 == glBindTexture(c1, "TEXTURE_2D", texture)
        c3 == glTexImage2D(c2, "TEXTURE_2D", "RGBA", image)
        c4 == glTexParameteri(c3, "TEXTURE_2D", "TEXTURE_MIN_FILTER", "LINEAR_MIPMAP_LINEAR")
        c5 == glTexParameteri(c4, "TEXTURE_2D", "TEXTURE_MAG_FILTER", "LINEAR")
        c6 == glTexParameteri(c5, "TEXTURE_2D", "TEXTURE_WRAP_S", "REPEAT")
        c7 == glTexParameteri(c6, "TEXTURE_2D", "TEXTURE_WRAP_T", "REPEAT")
        c8 == glGenerateMipmap(c7, "TEXTURE_2D")
    IN  glBindTexture(c8, "TEXTURE_2D", null)

configureTexture(image) ==
    LET c == textureSetup([gl |-> gl, log |-> <<>>], image)
    IN  /\ gl' = c.gl
        /\ calls' = c.log
        /\ op' = OpRec("configureTexture", 0, 0, image, Len(gl.tex) + 1)
        /\ UNCHANGED <<cubeMap, handlers, missing>>

---------------------------------------------------------------------------
(* Initial states and specifications *)

\* A WebGL context as the application hands it to the loader: `active` is
\* the active unit, and the application's depth texture exists and is bound
\* to TEXTURE_2D on the units in depthUnits.
InitContext(active, depthUnits) ==
    [ active   |-> active,
      bind2D   |-> [u \in Units |-> IF u \in depthUnits THEN 1 ELSE null],
      bindCube |-> [u \in Units |-> null],
      tex      |-> <<DepthTexture>>,
      uniform  |-> [p \in Programs |-> [s \in {"cubeSampler"} |-> 0]],
      error    |-> "NO_ERROR" ]

\* Before the first call: no cube map, no callback registered.
InitLoader ==
    /\ cubeMap = null
    /\ handlers = <<>>
    /\ calls = <<>>
    /\ op = OpRec("init", 0, 0, "", null)

\* Every skybox image loads.  The context is either untouched (unit 0
\* active, nothing bound) or as the shadow-map setup leaves it (unit 2
\* active with the depth texture bound there).
Init ==
    /\ gl \in { InitContext(TEXTURE0, {}), InitContext(TEXTURE2, {TEXTURE2}) }
    /\ missing = {}
    /\ InitLoader

\* Some skybox images are missing or corrupt, on an untouched context.
InitMissing ==
    /\ gl = InitContext(TEXTURE0, {})
    /\ missing \in { m \in SUBSET SkyboxPaths :
                        Cardinality(m) >= 1 /\ Cardinality(m) <= MaxMissing }
    /\ InitLoader

\* The textures configureTexture has created: the 2D textures other than the
\* application's depth texture.
NumTex2D == Cardinality({t \in 1 .. Len(gl.tex) : gl.tex[t].kind = "2d"}) - 1

NumFired ==
    Cardinality({ ki \in (1 .. Len(handlers)) \X FaceIds :
                    handlers[ki[1]][ki[2]].state = "fired" })

\* The operations performed so far.
NumOps == Len(handlers) + NumTex2D + NumFired

CallConfigureTexture ==
    /\ NumOps < MaxOps
    /\ NumTex2D < MaxTex2D
    /\ \E image \in Images2D : configureTexture(image)

CallConfigureCubeMap ==
    /\ NumOps < MaxOps
    /\ Len(handlers) < MaxCubeCalls
    /\ \E program \in Programs : configureCubeMap(program)

FireOnload ==
    /\ NumOps < MaxOps
    /\ \E k \in 1 .. Len(handlers) : \E i \in FaceIds : onload(k, i)

\* The operations of the file in any order: calls of configureCubeMap, each
\* registering six callbacks that fire at any later time and in any order,
\* and calls of configureTexture.  Nothing else touches the context.
Next == CallConfigureCubeMap \/ FireOnload \/ CallConfigureTexture

Spec == Init /\ [][Next]_vars

SpecMissing == InitMissing /\ [][Next]_vars


---------------------------------------------------------------------------
(* Properties of configureTexture *)

IsCall(e, fn, target, pname, value) ==
    /\ e.fn = fn /\ e.target = target /\ e.pname = pname /\ e.value = value

\* C1: every call of configureTexture(image) issues, in this order:
\* createTexture, bindTexture(TEXTURE_2D, texture), texImage2D of the image,
\* MIN_FILTER = LINEAR_MIPMAP_LINEAR, MAG_FILTER = LINEAR, WRAP_S = REPEAT,
\* WRAP_T = REPEAT, generateMipmap, bindTexture(TEXTURE_2D, null); the upload
\* precedes generateMipmap, and the upload, the four parameter calls and
\* generateMipmap each act on the new texture (it is the one bound).
C1_TextureCallOrder ==
    op.name = "configureTexture" =>
        LET texture == op.ret
        IN  /\ texture # null
            /\ Len(calls) = 9
            /\ calls[1].fn = "createTexture" /\ calls[1].tex = texture
            /\ IsCall(calls[2], "bindTexture", "TEXTURE_2D", "", "")
            /\ calls[2].tex = texture
            /\ IsCall(calls[3], "texImage2D", "TEXTURE_2D", "", "RGBA")
            /\ calls[3].image = op.arg
            /\ IsCall(calls[4], "texParameteri", "TEXTURE_2D",
                      "TEXTURE_MIN_FILTER", "LINEAR_MIPMAP_LINEAR")
            /\ IsCall(calls[5], "texParameteri", "TEXTURE_2D",
                      "TEXTURE_MAG_FILTER", "LINEAR")
            /\ IsCall(calls[6], "texParameteri", "TEXTURE_2D",
                      "TEXTURE_WRAP_S", "REPEAT")
            /\ IsCall(calls[7], "texParameteri", "TEXTURE_2D",
                      "TEXTURE_WRAP_T", "REPEAT")
            /\ IsCall(calls[8], "generateMipmap", "TEXTURE_2D", "", "")
            /\ IsCall(calls[9], "bindTexture", "TEXTURE_2D", "", "")
            /\ calls[9].tex = null
            /\ \A j \in 3 .. 8 : calls[j].bound = texture
            /\ \A j \in 1 .. 9 : \A m \in 1 .. 9 :
                   (calls[j].fn = "texImage2D" /\ calls[m].fn = "generateMipmap")
                       => j < m

\* configureTexture("wood.png") has just run on a unit other than 0 where the
\* depth texture was bound.
C1_Witness ==
    /\ op.name = "configureTexture"
    /\ op.arg = "wood.png"
    /\ gl.active # TEXTURE0
    /\ Len(calls) = 9
    /\ calls[2].bound = 1
    /\ calls[8].bound = op.ret

\* C9: a call of configureTexture leaves the active unit, every
\* TEXTURE_CUBE_MAP binding, the TEXTURE_2D binding of every other unit, and
\* every texture that existed before the call (the cube map and its faces
\* included) unchanged; it adds exactly one texture; and the TEXTURE_2D
\* binding of the active unit is null afterwards, whatever was bound before.
C9_TextureFrame ==
    [][ (op' # op /\ op'.name = "configureTexture") =>
            /\ gl'.active = gl.active
            /\ gl'.bindCube = gl.bindCube
            /\ \A u \in Units : u # gl.active => gl'.bind2D[u] = gl.bind2D[u]
            /\ gl'.bind2D[gl.active] = null
            /\ Len(gl'.tex) = Len(gl.tex) + 1
            /\ \A t \in 1 .. Len(gl.tex) : gl'.tex[t] = gl.tex[t]
            /\ gl'.uniform = gl.uniform
            /\ gl'.error = gl.error
            /\ cubeMap' = cubeMap
            /\ handlers' = handlers
      ]_vars

\* configureTexture has run on unit 2, where the depth texture was bound
\* before the call and nothing is bound now.
C9_Witness ==
    /\ op.name = "configureTexture"
    /\ cubeMap = null
    /\ gl.active = TEXTURE2
    /\ calls[2].bound = 1
    /\ gl.bind2D[gl.active] = null
    /\ gl.tex[1] = DepthTexture

\* C10: the texture a call of configureTexture(image) returns is a texture
\* object that did not exist before the call (so it differs from cubeMap and
\* from every earlier result), and at return it holds the image at level 0
\* with the mipmap chain generated from that image, MIN_FILTER =
\* LINEAR_MIPMAP_LINEAR, MAG_FILTER = LINEAR, WRAP_S = WRAP_T = REPEAT.
C10_TextureResult ==
    [][ (op' # op /\ op'.name = "configureTexture") =>
            LET texture == op'.ret
            IN  /\ texture \notin 1 .. Len(gl.tex)
                /\ texture # cubeMap
                /\ texture \in 1 .. Len(gl'.tex)
                /\ gl'.tex[texture].kind = "2d"
                /\ gl'.tex[texture].level0 = [image |-> op'.arg, format |-> "RGBA"]
                /\ gl'.tex[texture].mipmap = [image |-> op'.arg, format |-> "RGBA"]
                /\ gl'.tex[texture].minFilter = "LINEAR_MIPMAP_LINEAR"
                /\ gl'.tex[texture].magFilter = "LINEAR"
                /\ gl'.tex[texture].wrapS = "REPEAT"
                /\ gl'.tex[texture].wrapT = "REPEAT"
                /\ gl'.error = gl.error
      ]_vars

\* The second call of configureTexture has returned, after configureCubeMap
\* and an earlier configureTexture call created their textures.
C10_Witness ==
    /\ op.name = "configureTexture"
    /\ op.ret = Len(gl.tex)
    /\ cubeMap # null
    /\ \E t \in 1 .. Len(gl.tex) :
           /\ t \notin {1, cubeMap, op.ret}
           /\ gl.tex[t].kind = "2d"
           /\ gl.tex[t].level0.image # gl.tex[op.ret].level0.image
    /\ gl.tex[op.ret].mipmap.image = op.arg

---------------------------------------------------------------------------
(* Properties of configureCubeMap and its callbacks *)

\* The cube-map faces once every image is in place.
FullSkybox ==
    [ f \in CubeFaceTargets |->
        [ format |-> "RGB",
          image |->
            CASE f = "TEXTURE_CUBE_MAP_POSITIVE_X" -> "./skybox/right.jpg"
              [] f = "TEXTURE_CUBE_MAP_NEGATIVE_X" -> "./skybox/left.jpg"
              [] f = "TEXTURE_CUBE_MAP_POSITIVE_Y" -> "./skybox/top.jpg"
              [] f = "TEXTURE_CUBE_MAP_NEGATIVE_Y" -> "./skybox/bottom.jpg"
              [] f = "TEXTURE_CUBE_MAP_POSITIVE_Z" -> "./skybox/front.jpg"
              [] f = "TEXTURE_CUBE_MAP_NEGATIVE_Z" -> "./skybox/back.jpg" ] ]

\* The 720 orders in which six callbacks can fire.
Orders ==
    { p \in [FaceIds -> FaceIds] : \A a, b \in FaceIds : a # b => p[a] # p[b] }

\* The context after the callbacks hs have run in the order p[1], ..., p[n].
RECURSIVE RunOrder(_, _, _, _)
RunOrder(g, hs, p, n) ==
    IF n = 0 THEN g
    ELSE onloadBody([gl |-> RunOrder(g, hs, p, n - 1), log |-> <<>>], hs[p[n]]).gl

\* The texture the upload of callback h acted on (null before it has run).
Into(h) == IF h.log = <<>> THEN null ELSE h.log[1].bound

\* The callbacks of call k that have fired.
Fired(k) == { i \in FaceIds : handlers[k][i].state = "fired" }

\* The faces of texture t that hold image data.
Populated(t) == { i \in FaceIds : gl.tex[t].faces[faces[i][2]] # NoImage }

\* The cube-map textures created so far.
CubeMaps == { t \in 1 .. Len(gl.tex) : gl.tex[t].kind = "cube" }

\* The most recent call of configureCubeMap (cubeMap is its texture).
Latest == Len(handlers)

\* C2: for the most recent call of configureCubeMap: when it has returned
\* and no callback has fired yet, running its six callbacks in any of the
\* 720 orders ends in one and the same context, in which all six faces of
\* cubeMap hold their images; in every state in which its six callbacks have
\* all fired, cubeMap holds the full skybox; and the texture of any call
\* whose six callbacks have all fired and all uploaded into that texture
\* holds the full skybox.
C2_AllOrdersFullSkybox ==
    /\ (cubeMap # null /\ NumFired = 0) =>
           \A p \in Orders :
               LET final == RunOrder(gl, handlers[Latest], p, NumFaces)
               IN  /\ final.tex[cubeMap].faces = FullSkybox
                   /\ final = [gl EXCEPT !.tex[cubeMap].faces = FullSkybox]
    /\ (cubeMap # null /\ Fired(Latest) = FaceIds) =>
           /\ gl.tex[cubeMap].faces = FullSkybox
           /\ gl.error = "NO_ERROR"
    /\ \A k \in 1 .. Len(handlers) :
           (\A i \in FaceIds : /\ handlers[k][i].state = "fired"
                               /\ Into(handlers[k][i]) = handlers[k][i].cubeMap)
               => gl.tex[handlers[k][1].cubeMap].faces = FullSkybox

\* configureCubeMap was called twice; the six callbacks of the second call
\* have all fired and the skybox of cubeMap is complete.
C2_Witness ==
    /\ Len(handlers) = 2
    /\ Fired(2) = FaceIds
    /\ Fired(1) = {}
    /\ Populated(cubeMap) = FaceIds
    /\ gl.tex[cubeMap].faces = FullSkybox

\* The registered callbacks that have not fired yet, as <<call, iteration>>.
Pending ==
    { ki \in (1 .. Len(handlers)) \X FaceIds :
        handlers[ki[1]][ki[2]].state = "pending" }

\* The context after callback ki = <<call, iteration>> has run in context g.
Upload(g, ki) ==
    onloadBody([gl |-> g, log |-> <<>>], handlers[ki[1]][ki[2]]).gl

\* C3: in every state after configureCubeMap, a callback that has not fired
\* yet (of any call) changes the face it was registered for, in cubeMap (the
\* cube map bound on unit 0), and nothing else of the context, so the
\* pending callbacks different calls registered for one face have the same
\* effect; running the pending callbacks of two different faces (for each
\* face the earliest registered) in either order gives the same context; in
\* every cube map the populated faces are exactly the faces whose callback
\* has fired and uploaded into it; and after a single call of
\* configureCubeMap the populated faces of cubeMap are exactly the faces
\* whose callback has fired.
C3_FaceUploadsCommute ==
    cubeMap # null =>
        LET pending == Pending
            first == { ki \in pending :
                         \A k \in 1 .. (ki[1] - 1) :
                             handlers[k][ki[2]].state # "pending" }
            one == [ki \in pending |-> Upload(gl, ki)]
        IN  /\ \A ki \in pending :
                   one[ki] =
                       [gl EXCEPT !.tex[cubeMap].faces[faces[ki[2]][2]] =
                                      [image |-> faces[ki[2]][1], format |-> "RGB"]]
            /\ \A a, b \in first :
                   a[2] < b[2] => Upload(one[a], b) = Upload(one[b], a)
            /\ \A t \in CubeMaps :
                   Populated(t) =
                       { i \in FaceIds : \E k \in 1 .. Len(handlers) :
                             /\ handlers[k][i].state = "fired"
                             /\ Into(handlers[k][i]) = t }
            /\ Len(handlers) = 1 => Populated(cubeMap) = Fired(1)

\* After one call of configureCubeMap the callbacks of top.jpg and back.jpg
\* have fired and no other.
C3_Witness ==
    /\ Len(handlers) = 1
    /\ Fired(1) = {3, 6}
    /\ Populated(cubeMap) = {3, 6}
    /\ Into(handlers[1][3]) = cubeMap

\* C4: from the return of configureCubeMap(program) on, through every later
\* onload callback, configureTexture call and further configureCubeMap call,
\* unit 0 is the active unit, cubeMap (the texture of the most recent call)
\* is the cube-map texture bound to TEXTURE_CUBE_MAP on unit 0, and the
\* uniform cubeSampler is 0; the call itself issued uniform1i(cubeSampler, 0)
\* for the program it was given.
C4_UnitZeroIsCubeSampler ==
    cubeMap # null =>
        /\ gl.active = 0
        /\ gl.bindCube[0] = cubeMap
        /\ gl.tex[cubeMap].kind = "cube"
        /\ \A p \in Programs : gl.uniform[p]["cubeSampler"] = 0
        /\ op.name = "configureCubeMap" =>
               \E j \in 1 .. Len(calls) :
                   /\ IsCall(calls[j], "uniform1i", op.arg, "cubeSampler", "")
                   /\ calls[j].n = 0

\* configureCubeMap ran while unit 2 was active; since then a callback and a
\* configureTexture call have run, the latter last.
C4_Witness ==
    /\ cubeMap # null
    /\ gl.bind2D[TEXTURE2] = 1
    /\ Fired(Latest) # {}
    /\ op.name = "configureTexture"
    /\ op.ret > cubeMap
    /\ gl.bindCube[0] = cubeMap

MissingFaces == { i \in FaceIds : faces[i][1] \in missing }

\* C5: with skybox images missing or corrupt, every call of configureCubeMap
\* still registers its six callbacks and raises no error; the callback of a
\* missing image never fires and its face stays empty in every cube map; no
\* operation raises a GL error; and once the callbacks of the other images
\* of the most recent call have all fired, exactly the faces of the missing
\* images are unpopulated in cubeMap.
C5_MissingImageLeavesFaceEmpty ==
    /\ gl.error = "NO_ERROR"
    /\ \A k \in 1 .. Len(handlers) :
           /\ DOMAIN handlers[k] = FaceIds
           /\ \A i \in MissingFaces : handlers[k][i].state = "pending"
    /\ \A t \in CubeMaps : \A i \in MissingFaces :
           gl.tex[t].faces[faces[i][2]] = NoImage
    /\ (cubeMap # null /\ Fired(Latest) = FaceIds \ MissingFaces) =>
           Populated(cubeMap) = FaceIds \ MissingFaces

\* top.jpg is missing; the other five callbacks have fired and their faces
\* are populated.
C5_Witness ==
    /\ missing = {"./skybox/top.jpg"}
    /\ cubeMap # null
    /\ Fired(Latest) = FaceIds \ {3}
    /\ Populated(cubeMap) = {1, 2, 4, 5, 6}
    /\ gl.error = "NO_ERROR"

\* C6: a call of configureCubeMap issues no texImage2D; as long as no
\* callback has uploaded into it, the cube map it created has every face
\* empty; and in every state, a face of a texture holds image data only if
\* an onload callback registered for that face has fired and uploaded into
\* that texture.
C6_FaceDataOnlyAfterOnload ==
    /\ op.name = "configureCubeMap" =>
           \A j \in 1 .. Len(calls) : calls[j].fn # "texImage2D"
    /\ \A t \in CubeMaps :
           (\A ki \in (1 .. Len(handlers)) \X FaceIds :
                Into(handlers[ki[1]][ki[2]]) # t)
               => Populated(t) = {}
    /\ \A t \in 1 .. Len(gl.tex) : \A i \in FaceIds :
           gl.tex[t].faces[faces[i][2]] # NoImage =>
               \E k \in 1 .. Len(handlers) :
                   /\ handlers[k][i].state = "fired"
                   /\ Into(handlers[k][i]) = t

\* configureCubeMap has just returned for the second time: its six callbacks
\* are pending and the new cube map has no face data, while a callback of
\* the first call had populated a face of the first cube map.
C6_Witness ==
    /\ op.name = "configureCubeMap"
    /\ Len(calls) = 6
    /\ Len(handlers) = 2
    /\ Fired(2) = {}
    /\ Fired(1) = {4}
    /\ Populated(cubeMap) = {}
    /\ Populated(handlers[1][4].cubeMap) = {4}

\* The (path, target) pair of each loop iteration, as listed in the source.
FaceTable ==
    << <<"./skybox/right.jpg",  "TEXTURE_CUBE_MAP_POSITIVE_X">>,
       <<"./skybox/left.jpg",   "TEXTURE_CUBE_MAP_NEGATIVE_X">>,
       <<"./skybox/top.jpg",    "TEXTURE_CUBE_MAP_POSITIVE_Y">>,
       <<"./skybox/bottom.jpg", "TEXTURE_CUBE_MAP_NEGATIVE_Y">>,
       <<"./skybox/front.jpg",  "TEXTURE_CUBE_MAP_POSITIVE_Z">>,
       <<"./skybox/back.jpg",   "TEXTURE_CUBE_MAP_NEGATIVE_Z">> >>

\* C8: every call of configureCubeMap registers exactly six callbacks; the
\* one of iteration i holds faces[i]'s image and faces[i]'s face target
\* (right.jpg and POSITIVE_X, ..., back.jpg and NEGATIVE_Z), the six targets
\* being pairwise distinct; when it fires it issues exactly one GL call,
\* texImage2D of that image to that target; and from then on that face of
\* the cube map the upload acted on holds that image.
C8_CallbackUploadsOwnFace ==
    \A k \in 1 .. Len(handlers) :
        /\ DOMAIN handlers[k] = 1 .. 6
        /\ Cardinality({ handlers[k][i].face : i \in 1 .. 6 }) = 6
        /\ \A i \in 1 .. 6 :
               LET h == handlers[k][i]
               IN  /\ h.image = FaceTable[i][1]
                   /\ h.face = FaceTable[i][2]
                   /\ h.state = "pending" => h.log = <<>>
                   /\ h.state = "fired" =>
                          /\ Len(h.log) = 1
                          /\ IsCall(h.log[1], "texImage2D", FaceTable[i][2], "", "RGB")
                          /\ h.log[1].image = FaceTable[i][1]
                          /\ Into(h) \in CubeMaps
                          /\ gl.tex[Into(h)].faces[FaceTable[i][2]] =
                                 [image |-> FaceTable[i][1], format |-> "RGB"]

\* The callback of iteration 2 (left.jpg) has fired, before any other.
C8_Witness ==
    /\ Len(handlers) = 1
    /\ Fired(1) = {2}
    /\ Into(handlers[1][2]) = cubeMap
    /\ handlers[1][2].log[1].image = "./skybox/left.jpg"
    /\ gl.tex[cubeMap].faces["TEXTURE_CUBE_MAP_NEGATIVE_X"] =
           [image |-> "./skybox/left.jpg", format |-> "RGB"]
    /\ Populated(cubeMap) = {2}

\* C7: every onload callback uploads its image into the cube-map texture
\* created by the configureCubeMap call that registered it (the value of
\* cubeMap its closure holds), also when configureCubeMap has been called
\* again before it fires.
C7_CallbackUploadsIntoOwnCubeMap ==
    \A k \in 1 .. Len(handlers) : \A i \in FaceIds :
        LET h == handlers[k][i]
        IN  h.state = "fired" =>
                /\ Into(h) = h.cubeMap
                /\ gl.tex[h.cubeMap].faces[h.face] =
                       [image |-> h.image, format |-> "RGB"]

====
